---- MODULE Spec2Model ----
(***************************************************************************)
(* Model of LitModule.loadLatest (lit_nlp/client/core/lit_module.ts) and   *)
(* of SpanGraphModule (lit_nlp/client/modules/span_graph_module.ts).       *)
(*                                                                         *)
(* Every call of loadLatest is one entry of `calls`; its index is the      *)
(* identity of the promise it was given (a fresh promise per call).        *)
(* JavaScript runs one task at a time: a promise settles, and the code     *)
(* after each `await` runs later as a step of its own.                     *)
(*                                                                         *)
(* Spec   : a LitModule whose subclass calls loadLatest under any key.     *)
(* SpecSG : a SpanGraphModule driven by the primary selection.             *)
(* SpecFn : the functions of span_graph_module.ts applied to an argument   *)
(*          drawn by the initial state.                                     *)
(***************************************************************************)
EXTENDS Integers, Sequences, FiniteSets, TLC

VARIABLES
    calls,               \* every loadLatest call so far, in issue order
    latestLoadPromises,  \* key -> index of the stored promise, 0 when absent
    isLoading,           \* last value handed to setIsLoading
    selection,           \* selectionService.primarySelectedInputData, 0 = null
    predDisplayData,     \* SpanGraphModule.predDisplayData
    reacting,            \* firstUpdated has installed the reaction
    arg,                 \* SpecFn: the function to apply and its argument
    out                  \* SpecFn: <<>>, or <<r>> once it has returned r

vars == <<calls, latestLoadPromises, isLoading,
          selection, predDisplayData, reacting, arg, out>>

----------------------------------------------------------------------------
(* Bounds *)

MaxCalls == 3
NumInputs == 2

Inputs == 1..NumInputs
Keys == {"getPreds", "other"}

(* T|null of loadLatest's return type: <<>> is null, <<v>> is the value v. *)
Null == <<>>
Some(v) == <<v>>

----------------------------------------------------------------------------
(* Specs and records (lib/types), as far as span_graph_module.ts uses them *)

supportedPredTypes == <<"SequenceTags", "SpanLabels", "EdgeLabels">>

Range(s) == {s[i] : i \in 1..Len(s)}

(* A raw field value is a string or an array; both have a length. *)
Str(s) == [t |-> "string", v |-> s]
List(l) == [t |-> "list", v |-> l]
length(x) == Len(x.v)

(* The outcome of a function that may throw. *)
Ok(v) == [err |-> FALSE, val |-> v]
Threw == [err |-> TRUE, val |-> <<>>]

(* findSpecKeys(spec, types): the field names whose kind is one of `types`, *)
(* in the iteration order of the spec.                                      *)
RECURSIVE findSpecKeys(_, _)
findSpecKeys(spec, types) ==
    IF spec = <<>> THEN <<>>
    ELSE LET f == Head(spec)
             rest == findSpecKeys(Tail(spec), types)
         IN IF f.kind \in types THEN <<f.name>> \o rest ELSE rest

isLitSubtype(field, typeName) == field.kind = typeName

SpecField(spec, name) ==
    spec[CHOOSE i \in 1..Len(spec) : spec[i].name = name]

(* Mutant: spans start at the index after the tag's. *)
tagsToEdges_OffByOne(tags) ==
    [i \in 1..Len(tags) |-> [span1 |-> <<i, i + 1>>, label |-> tags[i]]]

(* tagsToEdges: one length-1 span per tag, zero-based. *)
tagsToEdges(tags) ==
    [i \in 1..Len(tags) |-> [span1 |-> <<i - 1, i>>, label |-> tags[i]]]

(* Mutant: empty spans are filtered out. *)
spansToEdges_DropEmpty(spans) ==
    LET kept == SelectSeq(spans, LAMBDA d : d.start < d.end)
    IN [i \in 1..Len(kept) |->
          [span1 |-> <<kept[i].start, kept[i].end>>, label |-> kept[i].label]]

(* spansToEdges: {start,end,label} -> {span1:[start,end], label}. *)
spansToEdges(spans) ==
    [i \in 1..Len(spans) |->
        [span1 |-> <<spans[i].start, spans[i].end>>, label |-> spans[i].label]]

(* Mutant: a tag field whose align names no token key is left out. *)
RECURSIVE pushTags_SilentDrop(_, _, _)
pushTags_SilentDrop(tokenToTags, tagKeys, spec) ==
    IF tagKeys = <<>> THEN Ok(tokenToTags)
    ELSE LET tagKey == Head(tagKeys)
             tokenKey == SpecField(spec, tagKey).align
         IN pushTags_SilentDrop(
              [i \in 1..Len(tokenToTags) |->
                 IF tokenToTags[i].key = tokenKey
                 THEN [tokenToTags[i] EXCEPT !.tags = Append(@, tagKey)]
                 ELSE tokenToTags[i]],
              Tail(tagKeys), spec)

(* Mutant: the tag field is put in front of its token field's list. *)
RECURSIVE pushTags_Unshift(_, _, _)
pushTags_Unshift(tokenToTags, tagKeys, spec) ==
    IF tagKeys = <<>> THEN Ok(tokenToTags)
    ELSE LET tagKey == Head(tagKeys)
             tokenKey == SpecField(spec, tagKey).align
         IN IF \A i \in 1..Len(tokenToTags) : tokenToTags[i].key # tokenKey
            THEN Threw
            ELSE pushTags_Unshift(
                   [i \in 1..Len(tokenToTags) |->
                      IF tokenToTags[i].key = tokenKey
                      THEN [tokenToTags[i] EXCEPT !.tags = <<tagKey>> \o @]
                      ELSE tokenToTags[i]],
                   Tail(tagKeys), spec)

(* mapTokenToTags, lines 99-102: tokenToTags is an object keyed by token   *)
(* field, in insertion order, written as a sequence of [key, tags]. When   *)
(* spec[tagKey].align (undefined is "") is no key of it,                    *)
(* tokenToTags[tokenKey] is undefined and .push throws a TypeError.        *)
RECURSIVE pushTags(_, _, _)
pushTags(tokenToTags, tagKeys, spec) ==
    IF tagKeys = <<>> THEN Ok(tokenToTags)
    ELSE LET tagKey == Head(tagKeys)
             tokenKey == SpecField(spec, tagKey).align
         IN IF \A i \in 1..Len(tokenToTags) : tokenToTags[i].key # tokenKey
            THEN Threw
            ELSE pushTags(
                   [i \in 1..Len(tokenToTags) |->
                      IF tokenToTags[i].key = tokenKey
                      THEN [tokenToTags[i] EXCEPT !.tags = Append(@, tagKey)]
                      ELSE tokenToTags[i]],
                   Tail(tagKeys), spec)

mapTokenToTags(spec) ==
    LET tagKeys == findSpecKeys(spec, Range(supportedPredTypes))
        tokenKeys == findSpecKeys(spec, {"Tokens"})
        seeded == [i \in 1..Len(tokenKeys) |-> [key |-> tokenKeys[i], tags |-> <<>>]]
    IN pushTags(seeded, tagKeys, spec)

(* Mutant: without the workaround of lines 119-121. *)
layerOf_NoWorkaround(data, spec, tagKey) ==
    LET edges0 == data[tagKey]
    IN IF isLitSubtype(SpecField(spec, tagKey), "SequenceTags")
       THEN IF edges0.t # "list" THEN Threw
            ELSE Ok([name |-> tagKey, edges |-> List(tagsToEdges(edges0.v))])
       ELSE IF isLitSubtype(SpecField(spec, tagKey), "SpanLabels")
       THEN IF edges0.t # "list" THEN Threw
            ELSE Ok([name |-> tagKey, edges |-> List(spansToEdges(edges0.v))])
       ELSE Ok([name |-> tagKey, edges |-> edges0])

(* One layer of parseInput (lines 114-127). Array.prototype.map of a value *)
(* that is no array throws.                                                 *)
layerOf(data, spec, tagKey) ==
    LET raw == data[tagKey]
        edges0 == IF length(raw) = 0 THEN List(<<>>) ELSE raw
    IN IF isLitSubtype(SpecField(spec, tagKey), "SequenceTags")
       THEN IF edges0.t # "list" THEN Threw
            ELSE Ok([name |-> tagKey, edges |-> List(tagsToEdges(edges0.v))])
       ELSE IF isLitSubtype(SpecField(spec, tagKey), "SpanLabels")
       THEN IF edges0.t # "list" THEN Threw
            ELSE Ok([name |-> tagKey, edges |-> List(spansToEdges(edges0.v))])
       ELSE Ok([name |-> tagKey, edges |-> edges0])

(* The tokens of one token field (lines 130-134): the field's value, or,   *)
(* when that is empty, the first TextSegment field's string, unsplit       *)
(* (split() without a separator). Without a TextSegment field, or with a   *)
(* value that is no string, the call of .split throws.                      *)
tokensOf(data, spec, tokenKey) ==
    LET tokens == data[tokenKey]
        textKeys == findSpecKeys(spec, {"TextSegment"})
    IN IF length(tokens) # 0 THEN Ok(tokens)
       ELSE IF textKeys = <<>> THEN Threw
       ELSE IF data[textKeys[1]].t # "string" THEN Threw
       ELSE Ok(List(<<data[textKeys[1]].v>>))

(* One entry of the result of parseInput (lines 111-136). *)
tokenGroupOf(data, spec, group) ==
    LET layers == [j \in 1..Len(group.tags) |-> layerOf(data, spec, group.tags[j])]
        tokens == tokensOf(data, spec, group.key)
    IN IF tokens.err \/ \E j \in 1..Len(layers) : layers[j].err
       THEN Threw
       ELSE Ok([key |-> group.key, tokens |-> tokens.val,
                layers |-> [j \in 1..Len(layers) |-> layers[j].val]])

(* parseInput: an Annotations object, written as a sequence of             *)
(* [key, tokens, layers] in insertion order; {} is <<>>.                    *)
parseInput(data, spec) ==
    LET tokenToTags == mapTokenToTags(spec)
    IN IF tokenToTags.err THEN Threw
       ELSE LET groups == [i \in 1..Len(tokenToTags.val) |->
                              tokenGroupOf(data, spec, tokenToTags.val[i])]
            IN IF \E i \in 1..Len(groups) : groups[i].err
               THEN Threw
               ELSE Ok([i \in 1..Len(groups) |-> groups[i].val])

(* The output spec of the module's model and the record the prediction     *)
(* service returns for each input.                                          *)
predSpec ==
    << [name |-> "text",   kind |-> "TextSegment",  align |-> ""],
       [name |-> "tokens", kind |-> "Tokens",       align |-> ""],
       [name |-> "tags",   kind |-> "SequenceTags", align |-> "tokens"],
       [name |-> "spans",  kind |-> "SpanLabels",   align |-> "tokens"] >>

PredsOf(input) ==
    [text   |-> Str("a b"),
     tokens |-> List(<<"a", "b">>),
     tags   |-> List([j \in 1..2 |-> IF j = input THEN "B" ELSE "O"]),
     spans  |-> List(<<[start |-> 0, end |-> input, label |-> "NP"]>>)]

(* apiService.getPreds([input], ...): one record per input, in input order *)
getPreds(input) == <<PredsOf(input)>>

----------------------------------------------------------------------------
(* State *)

NoCall == 0

Init ==
    /\ calls = <<>>
    /\ latestLoadPromises = [k \in Keys |-> NoCall]
    /\ isLoading = FALSE
    /\ selection = 0
    /\ predDisplayData = <<>>
    /\ reacting = FALSE
    /\ arg = [fn |-> "none"]
    /\ out = <<>>

CallIds == 1..Len(calls)

(* A continuation is queued and has not run yet. *)
LoadLatestReady(c) == calls[c].pc = "await" /\ calls[c].st # "pending"
UpdateReady(c) ==
    /\ calls[c].caller = "updatePredDisplayData"
    /\ calls[c].pc # "await"
    /\ calls[c].upc = "await"
MicrotaskPending == \E c \in CallIds : LoadLatestReady(c) \/ UpdateReady(c)

(* Appends the call record of a new loadLatest call; calls of the same key *)
(* that are still suspended are marked superseded (history).              *)
CallsWith(key, input, caller) ==
    Append(
      [c \in CallIds |->
         IF calls[c].key = key /\ calls[c].pc = "await"
         THEN [calls[c] EXCEPT !.superseded = TRUE] ELSE calls[c]],
      [key |-> key, input |-> input, caller |-> caller,
       st |-> "pending", pc |-> "await", ret |-> Null,
       superseded |-> FALSE, seen |-> NoCall, clears |-> 0,
       upc |-> IF caller = "updatePredDisplayData" THEN "await" ELSE "none"])

(* Mutant: the handle is stored only when the key has none (first issued   *)
(* wins).                                                                   *)
loadLatestStart_KeepFirst(key, input, caller) ==
    /\ Len(calls) < MaxCalls
    /\ calls' = CallsWith(key, input, caller)
    /\ latestLoadPromises' =
         IF latestLoadPromises[key] = NoCall
         THEN [latestLoadPromises EXCEPT ![key] = Len(calls) + 1]
         ELSE latestLoadPromises
    /\ isLoading' = TRUE

(* loadLatest, lines 84-87: store the promise, raise the flag, suspend. *)
loadLatestStart(key, input, caller) ==
    /\ Len(calls) < MaxCalls
    /\ calls' = CallsWith(key, input, caller)
    /\ latestLoadPromises' = [latestLoadPromises EXCEPT ![key] = Len(calls) + 1]
    /\ isLoading' = TRUE

(* A subclass calls loadLatest(key, promise) directly. *)
LoadLatest(key, input) ==
    /\ loadLatestStart(key, input, "direct")
    /\ UNCHANGED <<selection, predDisplayData, reacting, arg, out>>

(* The promise handed to loadLatest settles. *)
Resolve(c) ==
    /\ calls[c].st = "pending"
    /\ calls' = [calls EXCEPT ![c].st = "resolved"]
    /\ UNCHANGED <<latestLoadPromises, isLoading,
                   selection, predDisplayData, reacting, arg, out>>

Reject(c) ==
    /\ calls[c].st = "pending"
    /\ calls' = [calls EXCEPT ![c].st = "rejected"]
    /\ UNCHANGED <<latestLoadPromises, isLoading,
                   selection, predDisplayData, reacting, arg, out>>

(* What the resumed call records: its return value and the handle it found *)
(* stored under its key (history).                                          *)
Returned(c, value) ==
    [calls EXCEPT ![c].pc = "returned", ![c].ret = value,
                  ![c].seen = latestLoadPromises[calls[c].key]]

(* The same for a call that has also called setIsLoading(false) (history). *)
ReturnedCleared(c, value) ==
    [Returned(c, value) EXCEPT ![c].clears = @ + 1]

(* Mutant: no identity check, every resolved call commits (last completed  *)
(* wins).                                                                   *)
loadLatestResume_NoCheck(c) ==
    /\ LoadLatestReady(c)
    /\ IF calls[c].st = "rejected"
       THEN /\ calls' = [calls EXCEPT ![c].pc = "thrown"]
            /\ UNCHANGED <<latestLoadPromises, isLoading>>
       ELSE /\ isLoading' = FALSE
            /\ latestLoadPromises' = [latestLoadPromises EXCEPT ![calls[c].key] = NoCall]
            /\ calls' = ReturnedCleared(c, Some(getPreds(calls[c].input)))

(* Mutant: setIsLoading(false) moved out of the if. *)
loadLatestResume_ClearAlways(c) ==
    /\ LoadLatestReady(c)
    /\ IF calls[c].st = "rejected"
       THEN /\ calls' = [calls EXCEPT ![c].pc = "thrown"]
            /\ UNCHANGED <<latestLoadPromises, isLoading>>
       ELSE /\ isLoading' = FALSE
            /\ IF latestLoadPromises[calls[c].key] = c
               THEN /\ latestLoadPromises' =
                         [latestLoadPromises EXCEPT ![calls[c].key] = NoCall]
                    /\ calls' = ReturnedCleared(c, Some(getPreds(calls[c].input)))
               ELSE /\ calls' = ReturnedCleared(c, Null)
                    /\ UNCHANGED latestLoadPromises

(* Mutant: the delete moved out of the if. *)
loadLatestResume_DeleteAlways(c) ==
    /\ LoadLatestReady(c)
    /\ IF calls[c].st = "rejected"
       THEN /\ calls' = [calls EXCEPT ![c].pc = "thrown"]
            /\ UNCHANGED <<latestLoadPromises, isLoading>>
       ELSE /\ latestLoadPromises' = [latestLoadPromises EXCEPT ![calls[c].key] = NoCall]
            /\ IF latestLoadPromises[calls[c].key] = c
               THEN /\ isLoading' = FALSE
                    /\ calls' = ReturnedCleared(c, Some(getPreds(calls[c].input)))
               ELSE /\ calls' = Returned(c, Null)
                    /\ UNCHANGED isLoading

(* Mutant: the handle is never deleted. *)
loadLatestResume_NoDelete(c) ==
    /\ LoadLatestReady(c)
    /\ IF calls[c].st = "rejected"
       THEN /\ calls' = [calls EXCEPT ![c].pc = "thrown"]
            /\ UNCHANGED <<latestLoadPromises, isLoading>>
       ELSE IF latestLoadPromises[calls[c].key] = c
       THEN /\ isLoading' = FALSE
            /\ calls' = ReturnedCleared(c, Some(getPreds(calls[c].input)))
            /\ UNCHANGED latestLoadPromises
       ELSE /\ calls' = Returned(c, Null)
            /\ UNCHANGED <<latestLoadPromises, isLoading>>

(* loadLatest, lines 87-95: the code after `await promise`. *)
loadLatestResume(c) ==
    /\ LoadLatestReady(c)
    /\ IF calls[c].st = "rejected"
       THEN /\ calls' = [calls EXCEPT ![c].pc = "thrown"]
            /\ UNCHANGED <<latestLoadPromises, isLoading>>
       ELSE IF latestLoadPromises[calls[c].key] = c
       THEN /\ isLoading' = FALSE
            /\ latestLoadPromises' = [latestLoadPromises EXCEPT ![calls[c].key] = NoCall]
            /\ calls' = ReturnedCleared(c, Some(getPreds(calls[c].input)))
       ELSE /\ calls' = Returned(c, Null)
            /\ UNCHANGED <<latestLoadPromises, isLoading>>

LoadLatestResume(c) ==
    /\ loadLatestResume(c)
    /\ UNCHANGED <<selection, predDisplayData, reacting, arg, out>>

(* Mutant: no fetch is issued while an earlier one is loading. *)
updatePredDisplayData_SkipWhenLoading(input) ==
    IF input = 0
    THEN /\ predDisplayData' = <<>>
         /\ UNCHANGED <<calls, latestLoadPromises, isLoading>>
    ELSE IF isLoading
    THEN UNCHANGED <<calls, latestLoadPromises, isLoading, predDisplayData>>
    ELSE /\ loadLatestStart("getPreds", input, "updatePredDisplayData")
         /\ UNCHANGED predDisplayData

(* Mutant: an empty selection leaves the visible state as it is. *)
updatePredDisplayData_NoClear(input) ==
    IF input = 0
    THEN UNCHANGED <<calls, latestLoadPromises, isLoading, predDisplayData>>
    ELSE /\ loadLatestStart("getPreds", input, "updatePredDisplayData")
         /\ UNCHANGED predDisplayData

(* updatePredDisplayData, lines 222-230: up to `await this.loadLatest`. *)
updatePredDisplayData(input) ==
    IF input = 0
    THEN /\ predDisplayData' = <<>>
         /\ UNCHANGED <<calls, latestLoadPromises, isLoading>>
    ELSE /\ loadLatestStart("getPreds", input, "updatePredDisplayData")
         /\ UNCHANGED predDisplayData

(* updatePredDisplayData, lines 230-233: the code after the await. *)
UpdateResume(c) ==
    /\ UpdateReady(c)
    /\ IF calls[c].pc = "thrown"
       THEN /\ calls' = [calls EXCEPT ![c].upc = "thrown"]
            /\ UNCHANGED predDisplayData
       ELSE IF calls[c].ret = Null
       THEN /\ calls' = [calls EXCEPT ![c].upc = "discarded"]
            /\ UNCHANGED predDisplayData
       ELSE LET parsed == parseInput(calls[c].ret[1][1], predSpec)
            IN IF parsed.err
               THEN /\ calls' = [calls EXCEPT ![c].upc = "thrown"]
                    /\ UNCHANGED predDisplayData
               ELSE /\ calls' = [calls EXCEPT ![c].upc = "written"]
                    /\ predDisplayData' = parsed.val
    /\ UNCHANGED <<latestLoadPromises, isLoading, selection, reacting, arg, out>>

(* firstUpdated: reactImmediately runs the effect once with the current    *)
(* selection and then on every change of it.                                *)
FirstUpdated ==
    /\ ~reacting
    /\ reacting' = TRUE
    /\ updatePredDisplayData(selection)
    /\ UNCHANGED <<selection, arg, out>>

(* The primary selection changes (a user event, so no continuation is      *)
(* queued when it runs); the reaction calls updatePredDisplayData.          *)
SelectionChange(input) ==
    /\ ~MicrotaskPending
    /\ input # selection
    /\ selection' = input
    /\ IF reacting
       THEN updatePredDisplayData(input)
       ELSE UNCHANGED <<calls, latestLoadPromises, isLoading, predDisplayData>>
    /\ UNCHANGED <<reacting, arg, out>>

----------------------------------------------------------------------------
(* Specifications *)

Next ==
    \/ \E k \in Keys, i \in Inputs : LoadLatest(k, i)
    \/ \E c \in CallIds : Resolve(c)
    \/ \E c \in CallIds : Reject(c)
    \/ \E c \in CallIds : LoadLatestResume(c)

Spec == Init /\ [][Next]_vars

NextSG ==
    \/ FirstUpdated
    \/ \E i \in Inputs \cup {0} : SelectionChange(i)
    \/ \E c \in CallIds : Resolve(c)
    \/ \E c \in CallIds : Reject(c)
    \/ \E c \in CallIds : LoadLatestResume(c)
    \/ \E c \in CallIds : UpdateResume(c)

SpecSG == Init /\ [][NextSG]_vars

(* A LitModule all of whose promises resolve. *)
NextOK ==
    \/ \E k \in Keys, i \in Inputs : LoadLatest(k, i)
    \/ \E c \in CallIds : Resolve(c)
    \/ \E c \in CallIds : LoadLatestResume(c)

SpecOK == Init /\ [][NextOK]_vars

(* The same module when the runtime does what it promises: a pending       *)
(* promise settles, and a queued continuation of loadLatest is run. New    *)
(* calls are under no obligation, so issuing may stop at any time.         *)
SpecOKFair ==
    /\ Init
    /\ [][NextOK]_vars
    /\ WF_vars(\E c \in CallIds : Resolve(c))
    /\ WF_vars(\E c \in CallIds : LoadLatestResume(c))

TypeOK ==
    /\ isLoading \in BOOLEAN
    /\ \A k \in Keys : latestLoadPromises[k] \in CallIds \cup {NoCall}
    /\ selection \in Inputs \cup {0}

----------------------------------------------------------------------------
(* shouldDisplayModule of the two modules. modelSpecs is written as the    *)
(* sequence of the models' output specs, in the order of Object.keys.      *)

(* Mutant: one of the two kinds of field is enough. *)
goldShouldDisplayModule_Or(modelSpecs, datasetSpec) ==
    LET hasTokens == Len(findSpecKeys(datasetSpec, {"Tokens"})) > 0
        hasSupportedPreds ==
            Len(findSpecKeys(datasetSpec, Range(supportedPredTypes))) > 0
    IN hasTokens \/ hasSupportedPreds

(* SpanGraphGoldModule.shouldDisplayModule *)
goldShouldDisplayModule(modelSpecs, datasetSpec) ==
    LET hasTokens == Len(findSpecKeys(datasetSpec, {"Tokens"})) > 0
        hasSupportedPreds ==
            Len(findSpecKeys(datasetSpec, Range(supportedPredTypes))) > 0
    IN hasTokens /\ hasSupportedPreds

(* The loop of SpanGraphModule.shouldDisplayModule from modelNum on. *)
RECURSIVE modelLoop(_, _)
modelLoop(modelSpecs, modelNum) ==
    IF ~(modelNum < Len(modelSpecs)) THEN FALSE
    ELSE LET output == modelSpecs[modelNum + 1]
             hasTokens == Len(findSpecKeys(output, {"Tokens"})) > 0
             hasSupportedPreds ==
                 Len(findSpecKeys(output, Range(supportedPredTypes))) > 0
         IN IF hasTokens /\ hasSupportedPreds THEN TRUE
            ELSE modelLoop(modelSpecs, modelNum + 1)

(* SpanGraphModule.shouldDisplayModule *)
predShouldDisplayModule(modelSpecs, datasetSpec) == modelLoop(modelSpecs, 0)

----------------------------------------------------------------------------
(* The arguments the functions are applied to *)

MaxTags == 3
MaxSpans == 2
MaxFields == 3

FieldNames == <<"f1", "f2", "f3", "f4", "f5">>
TagLabels == {"B", "I", "O"}
SpanLabelNames == {"NP", "VP"}

SeqsUpTo(S, n) == UNION {[1..k -> S] : k \in 0..n}

TagSeqs == SeqsUpTo(TagLabels, MaxTags)
SpanRecords == [start : 0..MaxSpans, end : 0..MaxSpans, label : SpanLabelNames]
SpanSeqs == SeqsUpTo(SpanRecords, MaxSpans)

(* A field: Tokens and TextSegment fields have no align; a tag field has   *)
(* none ("") or names the first or the second field name, which may be a   *)
(* Tokens field, another field, the tag field itself or no field at all.   *)
Aligns == {"", FieldNames[1], FieldNames[2]}
FieldChoices ==
    [kind : {"Tokens", "TextSegment"}, align : {""}]
        \cup [kind : Range(supportedPredTypes), align : Aligns]
SpecsOfLen(n) ==
    {[i \in 1..n |-> [name |-> FieldNames[i], kind |-> f[i].kind,
                      align |-> f[i].align]] : f \in [1..n -> FieldChoices]}
Specs == UNION {SpecsOfLen(n) : n \in 0..MaxFields}

(* The raw value of a field: filled, an empty array, or the "" that the    *)
(* datapoint editor leaves.                                                 *)
RawValue(kind, variant) ==
    IF kind = "TextSegment" THEN Str("a b")
    ELSE IF variant = 1 THEN List(<<>>)
    ELSE IF variant = 2 THEN Str("")
    ELSE IF kind = "Tokens" THEN List(<<"a", "b">>)
    ELSE IF kind = "SequenceTags" THEN List(<<"B", "O">>)
    ELSE IF kind = "SpanLabels"
    THEN List(<<[start |-> 0, end |-> 2, label |-> "NP"]>>)
    ELSE List(<<[span1 |-> <<0, 1>>, label |-> "NP"]>>)

(* A record for the spec: the i-th field has variant (i + shift) % 3. *)
DataFor(spec, shift) ==
    [nm \in {spec[i].name : i \in 1..Len(spec)} |->
        LET i == CHOOSE j \in 1..Len(spec) : spec[j].name = nm
        IN RawValue(spec[i].kind, (i + shift) % 3)]

(* Output specs of other models: one that displays, one that does not. *)
OtherOutputs ==
    { << [name |-> "tokens", kind |-> "Tokens", align |-> ""],
         [name |-> "tags", kind |-> "SequenceTags", align |-> "tokens"] >>,
      << [name |-> "tokens", kind |-> "Tokens", align |-> ""] >> }
ModelSpecsWith(spec) ==
    {<<spec>>} \cup {<<spec, o>> : o \in OtherOutputs}
               \cup {<<o, spec>> : o \in OtherOutputs}

InitFn ==
    /\ calls = <<>>
    /\ latestLoadPromises = [k \in Keys |-> NoCall]
    /\ isLoading = FALSE
    /\ selection = 0
    /\ predDisplayData = <<>>
    /\ reacting = FALSE
    /\ out = <<>>
    /\ \/ \E tags \in TagSeqs : arg = [fn |-> "tagsToEdges", tags |-> tags]
       \/ \E spans \in SpanSeqs : arg = [fn |-> "spansToEdges", spans |-> spans]
       \/ \E spec \in Specs : arg = [fn |-> "mapTokenToTags", spec |-> spec]
       \/ \E spec \in Specs, shift \in 0..2 :
             arg = [fn |-> "parseInput", spec |-> spec,
                    data |-> DataFor(spec, shift)]
       \/ \E spec \in Specs :
             arg = [fn |-> "goldShouldDisplayModule", models |-> <<>>,
                    dataset |-> spec]
       \/ \E spec \in Specs : \E models \in ModelSpecsWith(spec) \cup {<<>>} :
             arg = [fn |-> "shouldDisplayModule", models |-> models,
                    dataset |-> <<>>]

Applies(fn, result) ==
    /\ arg.fn = fn
    /\ out = <<>>
    /\ out' = <<result>>
    /\ UNCHANGED <<calls, latestLoadPromises, isLoading,
                   selection, predDisplayData, reacting, arg>>

TagsToEdges == arg.fn = "tagsToEdges" /\ Applies("tagsToEdges", tagsToEdges(arg.tags))
SpansToEdges == arg.fn = "spansToEdges" /\ Applies("spansToEdges", spansToEdges(arg.spans))
MapTokenToTags ==
    arg.fn = "mapTokenToTags" /\ Applies("mapTokenToTags", mapTokenToTags(arg.spec))
ParseInput ==
    arg.fn = "parseInput" /\ Applies("parseInput", parseInput(arg.data, arg.spec))
GoldShouldDisplayModule ==
    /\ arg.fn = "goldShouldDisplayModule"
    /\ Applies("goldShouldDisplayModule",
               goldShouldDisplayModule(arg.models, arg.dataset))
ShouldDisplayModule ==
    /\ arg.fn = "shouldDisplayModule"
    /\ Applies("shouldDisplayModule",
               predShouldDisplayModule(arg.models, arg.dataset))

NextFn ==
    \/ TagsToEdges
    \/ SpansToEdges
    \/ MapTokenToTags
    \/ ParseInput
    \/ GoldShouldDisplayModule
    \/ ShouldDisplayModule

SpecFn == InitFn /\ [][NextFn]_vars

----------------------------------------------------------------------------
(* Vocabulary of the properties *)

InFlight(c) == calls[c].pc = "await"
Committed(c) == calls[c].pc = "returned" /\ calls[c].ret # Null
ResultOf(c) == Some(getPreds(calls[c].input))
SameKey(a, b) == calls[a].key = calls[b].key
LastIssued(c) == \A d \in CallIds : SameKey(c, d) => d <= c
(* The step resumes call c after its `await promise`. *)
Resumes(c) == calls[c].pc = "await" /\ calls'[c].pc # "await"

----------------------------------------------------------------------------
(* C1. Race property: when B is issued under the key of A while A is      *)
(* still suspended, and nothing is issued under that key after B, then     *)
(* whatever the order of the completions the call for A returns null and   *)
(* the call for B returns the result of B.                                  *)
C1_RaceProperty ==
    \A a \in CallIds, b \in CallIds :
        (a < b /\ SameKey(a, b) /\ calls[a].superseded /\ LastIssued(b)) =>
            /\ calls[a].pc = "returned" => calls[a].ret = Null
            /\ calls[b].pc = "returned" => calls[b].ret = ResultOf(b)

(* A returned null after B was committed and its handle removed. *)
C1_Witness ==
    \E a \in CallIds, b \in CallIds :
        /\ a < b /\ SameKey(a, b) /\ calls[a].superseded /\ LastIssued(b)
        /\ calls[a].pc = "returned" /\ calls[a].ret = Null
        /\ calls[a].seen = NoCall
        /\ Committed(b) /\ calls[b].ret = ResultOf(b)

(* C2 as stated: under one key at most one result is ever committed, and   *)
(* it is the result of the call issued last.                                *)
C2_AtMostOneCommitPerKey ==
    \A a \in CallIds, b \in CallIds :
        (SameKey(a, b) /\ Committed(a) /\ Committed(b)) => a = b /\ LastIssued(a)

(* C2 as amended: a call commits only if, when it resumes, no later call   *)
(* has been issued under its key, and what it returns is its own result;   *)
(* so of the calls of one key that were suspended together at most one     *)
(* commits. Calls that do not overlap each commit.                          *)
C2_CommitIsLastIssued ==
    [][\A c \in CallIds :
          (Resumes(c) /\ calls'[c].ret # Null) =>
              /\ LastIssued(c)
              /\ ~calls[c].superseded
              /\ calls'[c].ret = ResultOf(c)
              /\ \A d \in CallIds :
                    (d # c /\ SameKey(c, d) /\ InFlight(d)) => ~Committed(d)']_vars

(* Two calls of one key, one after the other, both committed. *)
C2_Witness ==
    \E a \in CallIds, b \in CallIds :
        /\ a < b /\ SameKey(a, b) /\ Committed(a) /\ Committed(b)
        /\ \E d \in CallIds : calls[d].superseded /\ calls[d].pc = "returned"

(* C3. After a call whose promise rejected while it was the stored handle  *)
(* has settled, the busy signal is not left true with nothing in flight.   *)
C3_BusyClearedOnFailure ==
    \A c \in CallIds :
        (calls[c].pc = "thrown" /\ latestLoadPromises[calls[c].key] = c) =>
            ~(isLoading /\ \A d \in CallIds : ~InFlight(d))

(* C4. The busy flag is true exactly when some key holds the handle of a   *)
(* call that is still in flight.                                            *)
C4_BusyIffInFlightHandle ==
    isLoading <=>
        \E k \in Keys : /\ latestLoadPromises[k] # NoCall
                        /\ InFlight(latestLoadPromises[k])

(* C5. A call that resumes and does not find its own promise stored under  *)
(* its key returns null and leaves the busy signal and the map alone.      *)
C5_MismatchLeavesStateAlone ==
    [][\A c \in CallIds :
          (Resumes(c) /\ calls[c].st = "resolved"
             /\ latestLoadPromises[calls[c].key] # c) =>
              /\ calls'[c].pc = "returned" /\ calls'[c].ret = Null
              /\ isLoading' = isLoading
              /\ latestLoadPromises' = latestLoadPromises]_vars

(* A superseded call has returned null; the newer handle is still stored   *)
(* and the busy signal is still true.                                       *)
C5_Witness ==
    \E c \in CallIds :
        /\ calls[c].pc = "returned" /\ calls[c].ret = Null
        /\ calls[c].seen # NoCall
        /\ latestLoadPromises[calls[c].key] = calls[c].seen
        /\ InFlight(calls[c].seen)
        /\ isLoading

(* C6. A call that resumes and finds its own promise stored under its key  *)
(* returns its result, sets the busy signal false and removes the handle.  *)
C6_MatchCommits ==
    [][\A c \in CallIds :
          (Resumes(c) /\ calls[c].st = "resolved"
             /\ latestLoadPromises[calls[c].key] = c) =>
              /\ calls'[c].pc = "returned" /\ calls'[c].ret = ResultOf(c)
              /\ isLoading' = FALSE
              /\ latestLoadPromises'[calls[c].key] = NoCall
              /\ \A k \in Keys \ {calls[c].key} :
                    latestLoadPromises'[k] = latestLoadPromises[k]]_vars

(* A call has committed while a call of the other key is in flight. *)
C6_Witness ==
    \E c \in CallIds :
        /\ Committed(c) /\ calls[c].seen = c
        /\ latestLoadPromises[calls[c].key] = NoCall
        /\ ~isLoading
        /\ \E d \in CallIds : ~SameKey(c, d) /\ InFlight(d)

----------------------------------------------------------------------------
(* SpanGraphModule: every call of `calls` is a fetch issued by             *)
(* updatePredDisplayData.                                                   *)

(* The step issues a fresh fetch for `input` under "getPreds". *)
IssuesFetch(input) ==
    /\ Len(calls') = Len(calls) + 1
    /\ calls'[Len(calls')].key = "getPreds"
    /\ calls'[Len(calls')].input = input
    /\ calls'[Len(calls')].st = "pending" /\ calls'[Len(calls')].pc = "await"
    /\ latestLoadPromises'["getPreds"] = Len(calls')

(* The step runs the code of updatePredDisplayData after its await for c. *)
UpdateResumes(c) == calls[c].upc = "await" /\ calls'[c].upc # "await"
Writes(c) == calls[c].upc = "await" /\ calls'[c].upc = "written"
NormalizedResultOf(c) == parseInput(getPreds(calls[c].input)[1], predSpec).val

(* C7 as stated: every change of the primary selection, a change to the    *)
(* empty selection included, issues a fresh fetch under "getPreds".        *)
C7_EveryChangeFetches ==
    [][(reacting /\ selection' # selection) => IssuesFetch(selection')]_vars

(* C7 as amended: every run of the reaction with a non-empty selection     *)
(* (the first run and every later change) issues a fresh fetch for it      *)
(* under "getPreds"; a run with the empty selection issues none.           *)
C7_NonEmptyChangeFetches ==
    [][((reacting /\ selection' # selection) \/ (~reacting /\ reacting')) =>
          IF selection' # 0
          THEN IssuesFetch(selection')
          ELSE calls' = calls /\ latestLoadPromises' = latestLoadPromises]_vars

(* A change of the selection issued the fetch that is now in flight. *)
C7_Witness ==
    /\ reacting
    /\ Len(calls) >= 2
    /\ calls[Len(calls)].input = selection
    /\ calls[Len(calls)].key = "getPreds"
    /\ calls[Len(calls)].st = "pending"
    /\ latestLoadPromises["getPreds"] = Len(calls)

(* C8. When the selection becomes empty, predDisplayData is {} after that  *)
(* very step, no fetch is issued and no handle is stored.                   *)
C8_EmptySelectionClears ==
    [][(selection # 0 /\ selection' = 0) =>
          /\ predDisplayData' = <<>>
          /\ calls' = calls
          /\ latestLoadPromises' = latestLoadPromises
          /\ isLoading' = isLoading]_vars

(* A result had been written, nothing is pending, and the empty selection  *)
(* has cleared it.                                                          *)
C8_Witness ==
    /\ reacting /\ selection = 0
    /\ predDisplayData = <<>>
    /\ \E c \in CallIds : calls[c].upc = "written"
    /\ \A c \in CallIds : calls[c].upc # "await"

(* C9. Every write of a fetch result into predDisplayData is the           *)
(* normalized result of the fetch issued most recently at that moment; a   *)
(* superseded fetch never writes; predDisplayData changes in no other way  *)
(* than by such a write or by being cleared.                                *)
C9_OnlyLatestFetchWritten ==
    [][/\ \A c \in CallIds :
            Writes(c) =>
                /\ c = Len(calls)
                /\ ~calls[c].superseded
                /\ predDisplayData' = NormalizedResultOf(c)
       /\ predDisplayData' # predDisplayData =>
            \/ predDisplayData' = <<>>
            \/ \E c \in CallIds : Writes(c)]_vars

(* Out-of-order completion: the newer fetch was written, the older one     *)
(* completed after it and was dropped.                                      *)
C9_Witness ==
    \E a \in CallIds, b \in CallIds :
        /\ a < b /\ calls[a].input # calls[b].input
        /\ calls[a].superseded /\ calls[a].upc = "discarded"
        /\ calls[a].seen = NoCall
        /\ calls[b].upc = "written"
        /\ predDisplayData = NormalizedResultOf(b)
        /\ predDisplayData # NormalizedResultOf(a)

----------------------------------------------------------------------------
(* C11. setIsLoading(false) is called exactly once for every call that is  *)
(* still the stored handle of its key when its promise has settled and     *)
(* its continuation has run, at most once per call, only by a call that    *)
(* found its own promise stored, and never by a superseded call.           *)
C11_ClearedOncePerLastIssued ==
    \A c \in CallIds :
        /\ calls[c].clears <= 1
        /\ calls[c].superseded => calls[c].clears = 0
        /\ calls[c].clears = 1 => calls[c].seen = c
        /\ (calls[c].pc # "await" /\ ~calls[c].superseded) => calls[c].clears = 1

----------------------------------------------------------------------------
(* Vocabulary of the properties of the functions *)

Done(fn) == arg.fn = fn /\ Len(out) = 1
HasKind(spec, kinds) == \E i \in 1..Len(spec) : spec[i].kind \in kinds
SupportedKinds == {"SequenceTags", "SpanLabels", "EdgeLabels"}
Displayable(spec) == HasKind(spec, {"Tokens"}) /\ HasKind(spec, SupportedKinds)
IsTokensField(spec, name) ==
    \E j \in 1..Len(spec) : spec[j].name = name /\ spec[j].kind = "Tokens"
(* Some tag field's align is missing or names no Tokens field of the spec. *)
Unaligned(spec) ==
    \E i \in 1..Len(spec) :
        spec[i].kind \in SupportedKinds /\ ~IsTokensField(spec, spec[i].align)
NamesOf(fields) == [i \in 1..Len(fields) |-> fields[i].name]
TokenFieldsOf(spec) == NamesOf(SelectSeq(spec, LAMBDA f : f.kind = "Tokens"))
AlignedTo(spec, tokenKey) ==
    NamesOf(SelectSeq(spec, LAMBDA f : f.kind \in SupportedKinds /\ f.align = tokenKey))
(* Every token list is there or can be taken from a TextSegment field. *)
TokensResolvable(data, spec) ==
    \A i \in 1..Len(spec) :
        spec[i].kind = "Tokens" =>
            \/ Len(data[spec[i].name].v) > 0
            \/ HasKind(spec, {"TextSegment"})

----------------------------------------------------------------------------
(* C12. For a tag sequence of length L, tagsToEdges returns L edges in     *)
(* index order; the edge of the tag at zero-based index i has span1 =      *)
(* [i, i+1] and that tag as its label, so each span starts where the one   *)
(* before it ends.                                                          *)
C12_TagsToEdges ==
    Done("tagsToEdges") =>
        LET edges == out[1]
        IN /\ Len(edges) = Len(arg.tags)
           /\ \A k \in 1..Len(edges) :
                 /\ edges[k].span1[1] = k - 1
                 /\ edges[k].span1[2] = k
                 /\ edges[k].label = arg.tags[k]
                 /\ k > 1 => edges[k].span1[1] = edges[k - 1].span1[2]

(* Three different tags, as B-PER, I-PER, O of scenario 1. *)
C12_Witness ==
    /\ Done("tagsToEdges")
    /\ arg.tags = <<"B", "I", "O">>
    /\ out[1][3] = [span1 |-> <<2, 3>>, label |-> "O"]

(* C13. shouldDisplayModule is true exactly when the spec it examines has  *)
(* a Tokens field and a field of a supported prediction kind: the dataset  *)
(* spec for the gold module, and for the prediction module the output      *)
(* spec of some model.                                                      *)
C13_ShouldDisplay ==
    /\ Done("goldShouldDisplayModule") => (out[1] <=> Displayable(arg.dataset))
    /\ Done("shouldDisplayModule") =>
          (out[1] <=> \E n \in 1..Len(arg.models) : Displayable(arg.models[n]))

(* Scenario 4: a Tokens field and no supported prediction field. *)
C13_Witness ==
    /\ Done("goldShouldDisplayModule")
    /\ HasKind(arg.dataset, {"Tokens"})
    /\ ~HasKind(arg.dataset, SupportedKinds)
    /\ out[1] = FALSE

(* C14. When some tag field's align is missing or names no Tokens field    *)
(* of the spec, mapTokenToTags ends in an error (and parseInput with it);  *)
(* it returns no grouping.                                                  *)
C14_UnalignedFails ==
    /\ (Done("mapTokenToTags") /\ Unaligned(arg.spec)) => out[1].err
    /\ (Done("parseInput") /\ Unaligned(arg.spec)) => out[1].err

(* A spec with a Tokens field and a tag field aligned to another field. *)
C14_Witness ==
    /\ Done("mapTokenToTags")
    /\ HasKind(arg.spec, {"Tokens"})
    /\ \E i \in 1..Len(arg.spec) :
          /\ arg.spec[i].kind \in SupportedKinds
          /\ arg.spec[i].align # ""
          /\ ~IsTokensField(arg.spec, arg.spec[i].align)
    /\ out[1].err

(* C15. When every tag field's align names a Tokens field, mapTokenToTags  *)
(* returns one entry per Tokens field, in spec order, whose list is the    *)
(* tag fields aligned to it, in spec order (so every tag field is listed   *)
(* once, under its align target, and a token field without tag fields has  *)
(* the empty list); parseInput, when the token lists can be resolved,      *)
(* returns for each of them the layers named after these tag fields, in    *)
(* the same order.                                                          *)
C15_GroupingAndLayerOrder ==
    /\ (Done("mapTokenToTags") /\ ~Unaligned(arg.spec)) =>
          /\ ~out[1].err
          /\ [i \in 1..Len(out[1].val) |-> out[1].val[i].key] = TokenFieldsOf(arg.spec)
          /\ \A i \in 1..Len(out[1].val) :
                out[1].val[i].tags = AlignedTo(arg.spec, out[1].val[i].key)
    /\ (Done("parseInput") /\ ~Unaligned(arg.spec)
          /\ TokensResolvable(arg.data, arg.spec)) =>
          /\ ~out[1].err
          /\ [i \in 1..Len(out[1].val) |-> out[1].val[i].key] = TokenFieldsOf(arg.spec)
          /\ \A i \in 1..Len(out[1].val) :
                NamesOf(out[1].val[i].layers) = AlignedTo(arg.spec, out[1].val[i].key)

(* Two tag fields aligned to one token field: two layers, in spec order. *)
C15_Witness ==
    /\ Done("parseInput")
    /\ ~Unaligned(arg.spec)
    /\ ~out[1].err
    /\ \E i \in 1..Len(out[1].val) :
          /\ Len(out[1].val[i].layers) = 2
          /\ out[1].val[i].layers[1].name = "f2"
          /\ out[1].val[i].layers[2].name = "f3"

(* C16. For an aligned tag field of any supported kind whose raw value is  *)
(* empty (the empty array or the string ""), parseInput returns a layer    *)
(* whose edges are the empty array.                                         *)
C16_EmptyValueGivesNoEdges ==
    (Done("parseInput") /\ ~Unaligned(arg.spec)
       /\ TokensResolvable(arg.data, arg.spec)) =>
        /\ ~out[1].err
        /\ \A i \in 1..Len(out[1].val) :
              \A j \in 1..Len(out[1].val[i].layers) :
                 LET layer == out[1].val[i].layers[j]
                 IN Len(arg.data[layer.name].v) = 0 =>
                       layer.edges.t = "list" /\ Len(layer.edges.v) = 0

(* A "" under an EdgeLabels field and an empty array under another tag     *)
(* field, both normalized to no edges.                                      *)
C16_Witness ==
    /\ Done("parseInput")
    /\ ~out[1].err
    /\ \E i \in 1..Len(out[1].val) :
          \E j, k \in 1..Len(out[1].val[i].layers) :
             LET placeholder == out[1].val[i].layers[j]
                 empty == out[1].val[i].layers[k]
             IN /\ SpecField(arg.spec, placeholder.name).kind = "EdgeLabels"
                /\ arg.data[placeholder.name].t = "string"
                /\ placeholder.edges.t = "list" /\ Len(placeholder.edges.v) = 0
                /\ arg.data[empty.name].t = "list"
                /\ Len(arg.data[empty.name].v) = 0
                /\ empty.edges.t = "list" /\ Len(empty.edges.v) = 0

(* C17. spansToEdges returns a list of the length and order of its         *)
(* argument whose i-th element is {span1: [start_i, end_i], label:         *)
(* label_i}.                                                                *)
C17_SpansToEdges ==
    Done("spansToEdges") =>
        LET edges == out[1]
        IN /\ Len(edges) = Len(arg.spans)
           /\ \A i \in 1..Len(edges) :
                 /\ edges[i].span1[1] = arg.spans[i].start
                 /\ edges[i].span1[2] = arg.spans[i].end
                 /\ edges[i].label = arg.spans[i].label
                 /\ DOMAIN edges[i] = {"span1", "label"}
                 /\ Len(edges[i].span1) = 2

(* Scenario 2 followed by a span that ends where it starts. *)
C17_Witness ==
    /\ Done("spansToEdges")
    /\ arg.spans = << [start |-> 0, end |-> 2, label |-> "NP"],
                      [start |-> 1, end |-> 1, label |-> "VP"] >>
    /\ out[1] = << [span1 |-> <<0, 2>>, label |-> "NP"],
                   [span1 |-> <<1, 1>>, label |-> "VP"] >>

----------------------------------------------------------------------------
(* C18. While the reaction is running and the primary selection is empty,  *)
(* predDisplayData is {}: once cleared it stays {} until a fetch issued    *)
(* for a later, non-empty selection is committed, so a fetch issued for an *)
(* earlier selection that is still in flight when the selection becomes    *)
(* empty writes nothing when it completes.                                  *)
C18_StaysClearedWhileEmpty ==
    (reacting /\ selection = 0) => predDisplayData = <<>>

----------------------------------------------------------------------------
(* C19. A call whose promise resolved and whose continuation has run has   *)
(* committed (returned its own result, not null) if and only if no later   *)
(* call was issued under its key while it was suspended; so a call issued  *)
(* after the previous one committed commits too, and of the calls of one   *)
(* key that were suspended together only the one issued last commits.      *)
C19_CommitIffNotSuperseded ==
    \A c \in CallIds :
        (calls[c].st = "resolved" /\ calls[c].pc = "returned") =>
            /\ Committed(c) <=> ~calls[c].superseded
            /\ Committed(c) => calls[c].ret = ResultOf(c)
            /\ \A d \in CallIds :
                  (d > c /\ SameKey(c, d) /\ Committed(c) /\ Committed(d)) =>
                      ~calls[d].superseded

(* a and b overlapped: a returned null, b committed; c was issued under    *)
(* the same key after b had committed and committed as well.               *)
C19_Witness ==
    \E a \in CallIds, b \in CallIds, c \in CallIds :
        /\ a < b /\ b < c /\ SameKey(a, b) /\ SameKey(b, c)
        /\ calls[a].st = "resolved" /\ calls[a].superseded
        /\ calls[a].pc = "returned" /\ calls[a].ret = Null
        /\ calls[b].st = "resolved" /\ Committed(b) /\ calls[b].seen = b
        /\ calls[c].st = "resolved" /\ Committed(c) /\ calls[c].seen = c

----------------------------------------------------------------------------
(* C20. When every promise resolves, a handle is stored only for a call    *)
(* that is still suspended, and once no more calls are issued the module   *)
(* reaches, and stays in, a state where the handle map is empty and the    *)
(* busy signal is false.                                                    *)
Quiescent ==
    /\ \A k \in Keys : latestLoadPromises[k] = NoCall
    /\ ~isLoading

C20_EventuallyQuiescent ==
    /\ [](\A k \in Keys :
            latestLoadPromises[k] # NoCall => InFlight(latestLoadPromises[k]))
    /\ <>[]Quiescent

(* Calls of both keys, one of them superseded, have all completed and      *)
(* left the map empty and the busy signal false.                            *)
C20_Witness ==
    /\ Len(calls) = MaxCalls
    /\ \A c \in CallIds : calls[c].st = "resolved" /\ calls[c].pc = "returned"
    /\ \E c \in CallIds, d \in CallIds : ~SameKey(c, d)
    /\ \E c \in CallIds : calls[c].superseded
    /\ Quiescent

============================================================================
